---- MODULE Spec2Model ----
(***************************************************************************)
(* Model of the Intelligent-Secure-Backup-System: the token encryption     *)
(* helpers (app/utils/crypto_utils.py), the DLP scanner (app/utils/dlp.py) *)
(* and the selective-redaction backup routes (app/routes/backup_routes.py, *)
(* app/main.py).                                                           *)
(*                                                                         *)
(* Text and file contents are sequences of one-character strings.  Bytes   *)
(* that are not printable characters have names: "NUL" (a zero byte),      *)
(* "BAD" (a byte that is not valid UTF-8), "CR" and "LF".                  *)
(***************************************************************************)
EXTENDS Integers, Sequences, FiniteSets, TLC

VARIABLES
    keyFile,    \* content of data/backup_key.key: NoKey or a key
    issued,     \* Fernet tokens that exist: records [body, key, pt, here]
    linesep,    \* os.linesep of the platform
    sources,    \* the file system outside data/: path -> [exists, files]
    backups,    \* data/backups: name -> [exists, files]
    metadata,   \* data/backups/metadata.json: the list of entries
    result,     \* outcome of the last call or request
    callers,    \* threads inside get_or_create_key: caller -> [pc, key, wrote]
    traversal   \* the os.walk of a backup whose source may hold data/backups

vars == <<keyFile, issued, linesep, sources, backups, metadata, result, callers, traversal>>

\* no thread is inside get_or_create_key and no walk is under way
NoCallers == << >>

NoWalk == [status |-> "none"]

-----------------------------------------------------------------------------
(* Sequences of characters *)

\* s[a..b], empty when a > b
Slice(s, a, b) == IF a > b THEN << >> ELSE [i \in 1..(b - a + 1) |-> s[a + i - 1]]

\* does t occur in s at position i
OccursAt(s, t, i) ==
    /\ i >= 1
    /\ i + Len(t) - 1 <= Len(s)
    /\ \A j \in 1..Len(t) : s[i + j - 1] = t[j]

StartsWith(s, t) == OccursAt(s, t, 1)

Contains(s, t) == \E i \in 1..(Len(s) + 1) : OccursAt(s, t, i)

-----------------------------------------------------------------------------
(* Characters and regular-expression classes *)

Digit == {"0", "1", "2", "3", "4", "5", "6", "7", "8", "9"}

UpperSeq == <<"A", "B", "C", "D", "E", "F", "G", "H", "I", "J", "K", "L", "M", "N", "O", "P", "Q", "R", "S", "T", "U", "V", "W", "X", "Y", "Z">>

LowerSeq == <<"a", "b", "c", "d", "e", "f", "g", "h", "i", "j", "k", "l", "m", "n", "o", "p", "q", "r", "s", "t", "u", "v", "w", "x", "y", "z">>

Upper == {UpperSeq[i] : i \in 1..Len(UpperSeq)}

Lower == {LowerSeq[i] : i \in 1..Len(LowerSeq)}

\* \w
WordChar == Digit \cup Upper \cup Lower \cup {"_"}

\* \s
Space == {" ", "TAB", "LF", "CR"}

\* str.lower() of one character and of a text
LowerChar(c) ==
    IF c \in Upper THEN LowerSeq[CHOOSE i \in 1..Len(UpperSeq) : UpperSeq[i] = c] ELSE c

LowerText(s) == [i \in 1..Len(s) |-> LowerChar(s[i])]

\* \b before position i
Boundary(s, i) ==
    LET before == i - 1 >= 1 /\ i - 1 <= Len(s) /\ s[i - 1] \in WordChar
        after == i >= 1 /\ i <= Len(s) /\ s[i] \in WordChar
    IN  before # after

\* length of the longest run of characters of class from position i
RECURSIVE RunLen(_, _, _)
RunLen(s, i, class) ==
    IF i >= 1 /\ i <= Len(s) /\ s[i] \in class THEN 1 + RunLen(s, i + 1, class) ELSE 0

Min(a, b) == IF a <= b THEN a ELSE b

Max(a, b) == IF a >= b THEN a ELSE b

\* re.finditer: the matches from position i on, left to right, none
\* overlapping; M(s, i) is the last position of the match at i, 0 if none
RECURSIVE FindAll(_, _, _)
FindAll(M(_, _), s, i) ==
    IF i > Len(s)
    THEN << >>
    ELSE LET e == M(s, i)
         IN  IF e = 0
             THEN FindAll(M, s, i + 1)
             ELSE <<<<i, e>>>> \o FindAll(M, s, e + 1)

\* the matched texts of a list of spans
Groups0(s, spans) == [k \in 1..Len(spans) |-> Slice(s, spans[k][1], spans[k][2])]

-----------------------------------------------------------------------------
(* app/utils/dlp.py: patterns *)

\* \b\d{lo,hi}\b at i: a whole word of lo to hi digits
DigitWordAt(s, i, lo, hi) ==
    LET n == RunLen(s, i, Digit)
    IN  IF Boundary(s, i) /\ n >= lo /\ n <= hi /\ Boundary(s, i + n)
        THEN i + n - 1
        ELSE 0

\* a pattern of one character class per position, between two \b
FixedWordAt(s, i, pat) ==
    IF /\ i + Len(pat) - 1 <= Len(s)
       /\ \A k \in 1..Len(pat) : s[i + k - 1] \in pat[k]
       /\ Boundary(s, i)
       /\ Boundary(s, i + Len(pat))
    THEN i + Len(pat) - 1
    ELSE 0

\* AADHAAR_RE = \b\d{12}\b
AadhaarAt(s, i) == DigitWordAt(s, i, 12, 12)

\* PAN_RE = \b[A-Z]{5}[0-9]{4}[A-Z]\b
PanAt(s, i) ==
    FixedWordAt(s, i, <<Upper, Upper, Upper, Upper, Upper, Digit, Digit, Digit, Digit, Upper>>)

\* PASSPORT_RE = \b[A-Z][0-9]{7}\b
PassportAt(s, i) ==
    FixedWordAt(s, i, <<Upper, Digit, Digit, Digit, Digit, Digit, Digit, Digit>>)

\* IFSC_RE = \b[A-Z]{4}0[A-Z0-9]{6}\b
IfscAt(s, i) ==
    LET an == Upper \cup Digit
    IN  FixedWordAt(s, i, <<Upper, Upper, Upper, Upper, {"0"}, an, an, an, an, an, an>>)

\* BANK_AC_RE = \b\d{9,18}\b
BankAcAt(s, i) == DigitWordAt(s, i, 9, 18)

\* CVV_RE = \b\d{3,4}\b
CvvAt(s, i) == DigitWordAt(s, i, 3, 4)

\* EMAIL_RE = [A-Za-z0-9._%+-]+@[A-Za-z0-9.-]+\.[A-Za-z]{2,}
EmailLocal == Upper \cup Lower \cup Digit \cup {".", "_", "%", "+", "-"}

EmailDomain == Upper \cup Lower \cup Digit \cup {".", "-"}

Letter == Upper \cup Lower

EmailAt(s, i) ==
    LET n == RunLen(s, i, EmailLocal)
        at == i + n
        d == RunLen(s, at + 1, EmailDomain)
        \* the dots of the domain run that end a non-empty domain and are
        \* followed by two letters; the greedy domain stops at the last one
        dots == {p \in (at + 2)..(at + d) :
                    s[p] = "." /\ RunLen(s, p + 1, Letter) >= 2}
    IN  IF n >= 1 /\ at <= Len(s) /\ s[at] = "@" /\ dots # {}
        THEN LET p == CHOOSE q \in dots : \A r \in dots : r <= q
             IN  p + RunLen(s, p + 1, Letter)
        ELSE 0

\* PHONE_RE = (?:\+91[\-\s]?|0)?[6-9]\d{9}\b
PhoneCoreAt(s, j) ==
    IF /\ j + 9 <= Len(s)
       /\ s[j] \in {"6", "7", "8", "9"}
       /\ \A k \in 1..9 : s[j + k] \in Digit
       /\ Boundary(s, j + 10)
    THEN j + 9
    ELSE 0

PhoneAt(s, i) ==
    LET plus == OccursAt(s, <<"+", "9", "1">>, i)
        sep == plus /\ i + 3 <= Len(s) /\ s[i + 3] \in ({"-"} \cup Space)
    IN  IF sep /\ PhoneCoreAt(s, i + 4) # 0 THEN PhoneCoreAt(s, i + 4)
        ELSE IF plus /\ PhoneCoreAt(s, i + 3) # 0 THEN PhoneCoreAt(s, i + 3)
        ELSE IF s[i] = "0" /\ PhoneCoreAt(s, i + 1) # 0 THEN PhoneCoreAt(s, i + 1)
        ELSE PhoneCoreAt(s, i)

\* PASSWORD_RE = (password|passwd|pwd|passcode|pass:)\s*[:#\-]?\s*([^\s,;]{4,40}),
\* re.IGNORECASE.  The value is group 2.
PasswordLabels == <<<<"p", "a", "s", "s", "w", "o", "r", "d">>, <<"p", "a", "s", "s", "w", "d">>, <<"p", "w", "d">>, <<"p", "a", "s", "s", "c", "o", "d", "e">>, <<"p", "a", "s", "s", ":">>>>

\* characters of [^\s,;] among the characters of the model
NotValueChar == Space \cup {",", ";"}

RECURSIVE ValueLen(_, _)
ValueLen(s, i) ==
    IF i >= 1 /\ i <= Len(s) /\ s[i] \notin NotValueChar THEN 1 + ValueLen(s, i + 1) ELSE 0

\* the value after a label that ends before position j, separators seps:
\* <<first, last>> of the value, or << >>.  An optional separator is taken
\* when a value of 4 characters follows it, else it is part of the value.
LabelledValue(s, j, seps, optional) ==
    LET a == j + RunLen(s, j, Space)
        withSep == a <= Len(s) /\ s[a] \in seps
        b == a + 1 + RunLen(s, a + 1, Space)
    IN  IF withSep /\ ValueLen(s, b) >= 4
        THEN <<b, b + Min(40, ValueLen(s, b)) - 1>>
        ELSE IF optional /\ ValueLen(s, a) >= 4
        THEN <<a, a + Min(40, ValueLen(s, a)) - 1>>
        ELSE << >>

\* the value of the first label alternative that matches at i, or << >>
RECURSIVE LabelMatch(_, _, _, _, _, _)
LabelMatch(s, i, labels, k, seps, optional) ==
    IF k > Len(labels)
    THEN << >>
    ELSE IF OccursAt(LowerText(s), labels[k], i)
            /\ LabelledValue(s, i + Len(labels[k]), seps, optional) # << >>
         THEN LabelledValue(s, i + Len(labels[k]), seps, optional)
         ELSE LabelMatch(s, i, labels, k + 1, seps, optional)

PasswordValue(s, i) == LabelMatch(s, i, PasswordLabels, 1, {":", "#", "-"}, TRUE)

PasswordAt(s, i) == IF PasswordValue(s, i) = << >> THEN 0 ELSE PasswordValue(s, i)[2]

\* CC_RE = \b(?:\d[ -]*?){13,19}\b.  CcAfter: c digits are matched and the
\* match stands before position p.  The greedy count tries one more digit
\* first, then the closing \b, and the lazy separators take one more
\* character only when both fail.
RECURSIVE CcAfter(_, _, _)
CcAfter(s, p, c) ==
    LET next == IF c < 19 /\ p <= Len(s) /\ s[p] \in Digit THEN CcAfter(s, p + 1, c + 1) ELSE 0
        tail == IF c >= 13 /\ Boundary(s, p) THEN p - 1 ELSE 0
    IN  IF next # 0 THEN next
        ELSE IF tail # 0 THEN tail
        ELSE IF p <= Len(s) /\ s[p] \in {" ", "-"} THEN CcAfter(s, p + 1, c)
        ELSE 0

CcAt(s, i) == IF Boundary(s, i) /\ s[i] \in Digit THEN CcAfter(s, i + 1, 1) ELSE 0

SENSITIVE_KEYWORDS ==
    <<<<"a", "a", "d", "h", "a", "a", "r">>,
       <<"p", "a", "n">>,
       <<"c", "r", "e", "d", "i", "t", " ", "c", "a", "r", "d">>,
       <<"c", "a", "r", "d", " ", "n", "u", "m", "b", "e", "r">>,
       <<"c", "v", "v">>,
       <<"u", "p", "i">>,
       <<"p", "a", "s", "s", "w", "o", "r", "d">>,
       <<"p", "w", "d">>,
       <<"p", "a", "s", "s", "p", "o", "r", "t">>,
       <<"p", "a", "s", "s", "p", "o", "r", "t", " ", "n", "o">>,
       <<"b", "a", "n", "k", " ", "a", "c", "c", "o", "u", "n", "t">>,
       <<"a", "c", "c", "o", "u", "n", "t", " ", "n", "u", "m", "b", "e", "r">>,
       <<"i", "f", "s", "c">>,
       <<"s", "a", "l", "a", "r", "y">>,
       <<"p", "a", "y", "r", "o", "l", "l">>,
       <<"s", "s", "n">>,
       <<"s", "o", "c", "i", "a", "l", " ", "s", "e", "c", "u", "r", "i", "t", "y">>,
       <<"s", "e", "c", "r", "e", "t">>,
       <<"c", "o", "n", "f", "i", "d", "e", "n", "t", "i", "a", "l">>>>

-----------------------------------------------------------------------------
(* app/utils/dlp.py: helpers, scoring and scan_file *)

DigitSeq == <<"0", "1", "2", "3", "4", "5", "6", "7", "8", "9">>

DigitVal(c) == (CHOOSE i \in 1..10 : DigitSeq[i] = c) - 1

\* re.sub of a character class by nothing
RECURSIVE Strip(_, _)
Strip(s, class) ==
    IF s = << >> THEN << >>
    ELSE IF Head(s) \in class THEN Strip(Tail(s), class)
    ELSE <<Head(s)>> \o Strip(Tail(s), class)

RECURSIVE LuhnSum(_, _, _)
LuhnSum(digits, i, parity) ==
    IF i > Len(digits) THEN 0
    ELSE LET d == DigitVal(digits[i])
             dd == IF (i - 1) % 2 = parity
                   THEN (IF 2 * d > 9 THEN 2 * d - 9 ELSE 2 * d)
                   ELSE d
         IN  dd + LuhnSum(digits, i + 1, parity)

\* a _luhn_check that doubles from the first digit whatever the length
LuhnCheckFromLeft(number_str) ==
    LET digits == SelectSeq(number_str, LAMBDA c : c \in Digit)
    IN  IF Len(digits) < 13 \/ Len(digits) > 19
        THEN FALSE
        ELSE LuhnSum(digits, 1, 0) % 10 = 0

\* _luhn_check
LuhnCheck(number_str) ==
    LET digits == SelectSeq(number_str, LAMBDA c : c \in Digit)
    IN  IF Len(digits) < 13 \/ Len(digits) > 19
        THEN FALSE
        ELSE LuhnSum(digits, 1, Len(digits) % 2) % 10 = 0

\* max_bytes of _read_file_safe
MaxBytes == 200000

\* A file is a record [bytes, readable, ai, ml]: its bytes, whether they can
\* be read, and what the embedding model (ai) and the learned classifier (ml)
\* return for its text, in thousandths, 0 when the model is not installed.

\* _read_file_safe: the first max_bytes bytes decoded as UTF-8 with the
\* invalid bytes dropped; the empty text when the file cannot be read
ReadFileSafe(f) ==
    IF ~f.readable
    THEN << >>
    ELSE SelectSeq(Slice(f.bytes, 1, Min(Len(f.bytes), MaxBytes)), LAMBDA c : c # "BAD")

\* number of SENSITIVE_KEYWORDS that occur in the lowercased text
KeywordHits(text) ==
    Cardinality({k \in 1..Len(SENSITIVE_KEYWORDS) :
                    Contains(LowerText(text), SENSITIVE_KEYWORDS[k])})

\* compute_context_score_ai, predict_context_ml: the models' answers
ComputeContextScoreAi(f) == f.ai

PredictContextMl(f) == f.ml

\* context_score, in ten-thousandths:
\* min(0.3 * min(1, h / 6) + 0.4 * ai_score + 0.3 * ml_score, 1.0)
Hybrid(h, ai_score, ml_score) ==
    Min(500 * Min(6, h) + 4 * ai_score + 3 * ml_score, 10000)

ContextScore(text, f) ==
    Hybrid(KeywordHits(text), ComputeContextScoreAi(f), PredictContextMl(f))

\* round() of num / den (den > 0): to the nearest integer, ties to even
Round(num, den) ==
    LET q == num \div den
        r == num % den
    IN  IF 2 * r < den THEN q
        ELSE IF 2 * r > den THEN q + 1
        ELSE IF q % 2 = 0 THEN q ELSE q + 1

ConfBoost(confidence) ==
    CASE confidence = "low" -> 0
      [] confidence = "medium" -> 10
      [] confidence = "high" -> 20
      [] OTHER -> 0

\* a compute_risk_score that counts the matches, not the detectors that hit
ComputeRiskScoreByMatches(hits, confidence, ctx) ==
    LET n_matches == Cardinality(UNION {{<<d, j>> : j \in 1..Len(hits[d])} : d \in DOMAIN hits})
        raw == (20 * n_matches + ConfBoost(confidence)) * (10000 + ctx)
    IN  Max(0, Min(100, Round(raw, 10000)))

\* compute_risk_score; ctx in ten-thousandths
ComputeRiskScore(hits, confidence, ctx) ==
    LET n_types == Cardinality(DOMAIN hits)
        base == 20 * n_types
        raw == (base + ConfBoost(confidence)) * (10000 + ctx)
    IN  Max(0, Min(100, Round(raw, 10000)))

\* a risk_label that is High only above 70
RiskLabelAbove70(score) ==
    IF score > 70 THEN "High"
    ELSE IF score >= 35 THEN "Medium"
    ELSE "Low"

\* risk_label
RiskLabel(score) ==
    IF score >= 70 THEN "High"
    ELSE IF score >= 35 THEN "Medium"
    ELSE "Low"

\* the CVV matches that have "cvv" or "card" in the lowercased window of 10
\* characters around them
CvvSpans(text) ==
    SelectSeq(FindAll(CvvAt, text, 1),
              LAMBDA sp :
                LET snippet == LowerText(Slice(text, Max(1, sp[1] - 10),
                                               Min(Len(text), sp[2] + 10)))
                IN  Contains(snippet, <<"c", "v", "v">>)
                        \/ Contains(snippet, <<"c", "a", "r", "d">>))

\* the credit card candidates without spaces and hyphens that pass Luhn
CcValid(text) ==
    SelectSeq(Groups0(text, FindAll(CcAt, text, 1)),
              LAMBDA m : LuhnCheck(Strip(m, {" ", "-"})))

\* the matches of every detector, in the order scan_file runs them
AllMatches(text) ==
    [aadhaar |-> Groups0(text, FindAll(AadhaarAt, text, 1)),
     pan |-> Groups0(text, FindAll(PanAt, text, 1)),
     email |-> Groups0(text, FindAll(EmailAt, text, 1)),
     phone |-> Groups0(text, FindAll(PhoneAt, text, 1)),
     passport |-> Groups0(text, FindAll(PassportAt, text, 1)),
     password |-> LET spans == FindAll(PasswordAt, text, 1)
                  IN  [k \in 1..Len(spans) |->
                        LET v == PasswordValue(text, spans[k][1])
                        IN  Slice(text, v[1], v[2])],
     bank_account |-> Groups0(text, FindAll(BankAcAt, text, 1)),
     ifsc |-> Groups0(text, FindAll(IfscAt, text, 1)),
     cvv |-> Groups0(text, CvvSpans(text)),
     credit_card |-> LET valid == CcValid(text)
                     IN  [k \in 1..Len(valid) |-> Strip(valid[k], {" ", "-"})]]

\* hits of scan_file: the detectors that matched, each with its matches
NonEmpty(all) == [d \in {e \in DOMAIN all : all[e] # << >>} |-> all[d]]

Hits(text) == NonEmpty(AllMatches(text))

\* scan_file returns {} for a file without text
NoFinding == [none |-> TRUE]

\* round(ctx, 3), in thousandths
RoundCtx(ctx) == Round(ctx, 10)

\* a confidence heuristic that looks at the keywords only
ConfidenceFromKeywords(hits, kw_hits) ==
    IF kw_hits >= 2 THEN "high" ELSE "medium"

\* the confidence heuristic of scan_file, kw_hits the keywords in the text
Confidence(hits, kw_hits) ==
    IF DOMAIN hits = {} THEN "low"
    ELSE IF kw_hits >= 2 THEN "high"
    ELSE "medium"

\* the risk and the label of scan_file: without hits 0 and Low
Risk(hits, conf, ctx) ==
    IF DOMAIN hits = {} THEN 0 ELSE ComputeRiskScore(hits, conf, ctx)

Label(hits, risk) == IF DOMAIN hits = {} THEN "Low" ELSE RiskLabel(risk)

\* the dict scan_file returns
Result(hits, conf, ctx, risk) ==
    [hits |-> hits, confidence |-> conf, context_score |-> RoundCtx(ctx),
     risk_score |-> risk, risk_label |-> Label(hits, risk)]

Rated(hits, conf, ctx) == Result(hits, conf, ctx, Risk(hits, conf, ctx))

\* scan_file on a text that is not empty: kw_hits of its keywords occur
ScanScored(hits, kw_hits, ctx) == Rated(hits, Confidence(hits, kw_hits), ctx)

\* scan_file on the text it read
ScanText(text, hits, ctx) ==
    IF text = << >>
    THEN NoFinding
    ELSE ScanScored(hits, KeywordHits(text), ctx)

ScanRead(text, f) == ScanText(text, Hits(text), ContextScore(text, f))

\* scan_file
ScanFile(f) == ScanRead(ReadFileSafe(f), f)

-----------------------------------------------------------------------------
(* app/utils/crypto_utils.py *)

NoKey == "NoKey"

\* keys Fernet.generate_key() can return
Keys == {"k1", "k2"}

\* a key of an earlier installation, whose key file is gone
OldKey == "k0"

\* the marker of encrypt_str's placeholder format "<ENC>{base64-token}"
Marker == <<"<", "E", "N", "C", ">">>

\* A Fernet token is urlsafe base64 of version byte 0x80, a 64-bit timestamp,
\* the IV, the ciphertext and the HMAC: it always begins "gAAAAA", the rest
\* varies with the time, the IV and the key.
Header == <<"g", "A", "A", "A", "A", "A">>

\* samples of what follows the header
Tails == {<<"B", "q">>, <<"1", "2", "3">>, <<"Z", "k">>}

Bodies == {Header \o t : t \in Tails}

\* a get_or_create_key that overwrites the key file on every call
GetOrCreateKeyAlwaysNew(kf, fresh) == [key |-> fresh, file |-> fresh]

\* get_or_create_key: the stored key when the file exists, else a newly
\* generated key, written to the file.  [key, file]
GetOrCreateKey(kf, fresh) ==
    IF kf # NoKey
    THEN [key |-> kf, file |-> kf]
    ELSE [key |-> fresh, file |-> fresh]

\* get_fernet: a Fernet over the key of get_or_create_key
GetFernet(kf, fresh) == GetOrCreateKey(kf, fresh)

\* Fernet.encrypt can return body for pt under key: authenticated encryption
\* never yields one token for two plaintexts or under two keys.
CanIssue(reg, body, key, pt) ==
    \A r \in reg : r.body = body => (r.key = key /\ r.pt = pt)

\* Fernet.decrypt: the plaintext of a token issued under this key, else
\* InvalidToken.  [ok, value]
FernetDecrypt(reg, key, body) ==
    IF \E r \in reg : r.body = body /\ r.key = key
    THEN [ok |-> TRUE, value |-> (CHOOSE r \in reg : r.body = body /\ r.key = key).pt]
    ELSE [ok |-> FALSE, value |-> "InvalidToken"]

\* encrypt_str: [file, key, placeholder]
EncryptStr(value, kf, fresh, body) ==
    LET f == GetFernet(kf, fresh)
    IN  [file |-> f.file, key |-> f.key, placeholder |-> Marker \o body]

\* a decrypt_str without the test of the marker
DecryptStrNoMarkerTest(p, kf, fresh, reg) ==
    LET f == GetFernet(kf, fresh)
        d == FernetDecrypt(reg, f.key, Slice(p, Len(Marker) + 1, Len(p)))
    IN  [file |-> f.file, fetched |-> TRUE, ok |-> d.ok, value |-> d.value]

\* decrypt_str: [file, ok, value]; the marker is tested before the key is
\* fetched.
DecryptStr(p, kf, fresh, reg) ==
    IF ~StartsWith(p, Marker)
    THEN [file |-> kf, fetched |-> FALSE, ok |-> FALSE, value |-> "ValueError"]
    ELSE LET f == GetFernet(kf, fresh)
             d == FernetDecrypt(reg, f.key, Slice(p, Len(Marker) + 1, Len(p)))
         IN  [file |-> f.file, fetched |-> TRUE, ok |-> d.ok, value |-> d.value]

-----------------------------------------------------------------------------
(* app/routes/backup_routes.py: helpers *)

\* bytes that _is_text_file reads; 2048 in the source, scaled to the files of
\* the model
SniffLen == 4

\* _is_text_file: no zero byte in the first bytes, and these decode as UTF-8
IsTextFile(f) ==
    LET chunk == Slice(f.bytes, 1, Min(Len(f.bytes), SniffLen))
    IN  /\ f.readable
        /\ \A i \in 1..Len(chunk) : chunk[i] # "NUL" /\ chunk[i] # "BAD"

\* universal newlines of a file read in text mode
RECURSIVE Newlines(_)
Newlines(s) ==
    IF s = << >> THEN << >>
    ELSE IF Len(s) >= 2 /\ s[1] = "CR" /\ s[2] = "LF" THEN <<"LF">> \o Newlines(Slice(s, 3, Len(s)))
    ELSE IF s[1] = "CR" THEN <<"LF">> \o Newlines(Tail(s))
    ELSE <<s[1]>> \o Newlines(Tail(s))

\* Path.read_text(encoding="utf-8", errors="ignore")
ReadText(bytes) == Newlines(SelectSeq(bytes, LAMBDA c : c # "BAD"))

\* Path.write_text(text, encoding="utf-8"): "\n" becomes os.linesep
RECURSIVE WriteText(_, _)
WriteText(text, sep) ==
    IF text = << >> THEN << >>
    ELSE IF Head(text) = "LF" THEN sep \o WriteText(Tail(text), sep)
    ELSE <<Head(text)>> \o WriteText(Tail(text), sep)

\* str.replace(t, r), t not empty: the occurrences of t from the left, none
\* overlapping
RECURSIVE ReplaceFrom(_, _, _, _)
ReplaceFrom(s, t, r, i) ==
    IF i > Len(s) THEN << >>
    ELSE IF OccursAt(s, t, i) THEN r \o ReplaceFrom(s, t, r, i + Len(t))
    ELSE <<s[i]>> \o ReplaceFrom(s, t, r, i + 1)

Replace(s, t, r) == ReplaceFrom(s, t, r, 1)

\* the non-empty values of all detectors of hits
Tokens(hits) == UNION {{hits[d][k] : k \in DOMAIN hits[d]} : d \in DOMAIN hits} \ {<< >>}

SortedTokens(tokens) ==
    {o \in [1..Cardinality(tokens) -> tokens] :
        \A i, j \in DOMAIN o : i < j => (o[i] # o[j] /\ Len(o[i]) >= Len(o[j]))}

\* the loop of _encrypt_sensitive_in_text from the k-th token on.  bodyOf is
\* the Fernet token each encryption returns, failing the tokens whose
\* encryption raises.  [out, file, reg]
RECURSIVE EncryptLoop(_, _, _, _, _, _, _, _)
EncryptLoop(out, order, k, bodyOf, failing, kf, fresh, reg) ==
    IF k > Len(order)
    THEN [out |-> out, file |-> kf, reg |-> reg]
    ELSE LET tok == order[k]
             e == EncryptStr(tok, kf, fresh, bodyOf[tok])
         IN  IF tok \in failing
             THEN EncryptLoop(out, order, k + 1, bodyOf, failing, kf, fresh, reg)
             ELSE EncryptLoop(Replace(out, tok, e.placeholder), order, k + 1, bodyOf,
                              failing, e.file, fresh,
                              {r \in reg : r.body # bodyOf[tok]}
                                \cup {[body |-> bodyOf[tok], key |-> e.key, pt |-> tok,
                                       here |-> TRUE]})

\* _encrypt_sensitive_in_text.  [out, file, reg]
EncryptSensitiveInText(content, hits, order, bodyOf, failing, kf, fresh, reg) ==
    IF DOMAIN hits = {}
    THEN [out |-> content, file |-> kf, reg |-> reg]
    ELSE EncryptLoop(content, order, 1, bodyOf, failing, kf, fresh, reg)

\* the fallback patterns of _process_and_copy_file:
\* (password|passwd|pwd)\s*[:=]\s*([^\s,;]{4,40}), re.IGNORECASE, and the
\* e-mail pattern
FallbackLabels == <<PasswordLabels[1], PasswordLabels[2], PasswordLabels[3]>>

FallbackValue(s, i) == LabelMatch(s, i, FallbackLabels, 1, {":", "="}, FALSE)

FallbackAt(s, i) == IF FallbackValue(s, i) = << >> THEN 0 ELSE FallbackValue(s, i)[2]

\* a list of the distinct elements of a sequence
RECURSIVE Dedup(_)
Dedup(q) ==
    IF q = << >> THEN << >>
    ELSE <<Head(q)>> \o Dedup(SelectSeq(Tail(q), LAMBDA x : x # Head(q)))

ExtraHits(text) ==
    LET spans == FindAll(FallbackAt, text, 1)
        all == [password |-> [k \in 1..Len(spans) |->
                                LET v == FallbackValue(text, spans[k][1])
                                IN  Slice(text, v[1], v[2])],
                email |-> Dedup(Groups0(text, FindAll(EmailAt, text, 1)))]
    IN  [d \in {e \in DOMAIN all : all[e] # << >>} |-> all[d]]

\* the I/O errors one file can meet: of copy2, of read_text, of write_text,
\* and of the second copy2 of create_backup, which runs only after the first
\* failed; write_text runs only after read_text succeeded
IoFaults ==
    {io \in [copyFails : BOOLEAN, readFails : BOOLEAN, writeFails : BOOLEAN,
             retryFails : BOOLEAN] :
        /\ io.retryFails => io.copyFails
        /\ ~(io.readFails /\ io.writeFails)}

\* the Fernet tokens, among bodies, a run can get for its tokens: one per
\* token, each new or the one the same plaintext got before under the key
BodyChoices(tokens, reg, key, bodies) ==
    {b \in [tokens -> bodies] :
        /\ \A t, u \in tokens : t # u => b[t] # b[u]
        /\ \A t \in tokens : CanIssue(reg, b[t], key, t)}

\* shutil.copy2(src, dst): [raised, written, dst]; io.copyFails is an I/O
\* error of the copy
Copy2(f, io) ==
    IF ~f.readable \/ io.copyFails
    THEN [raised |-> TRUE, written |-> FALSE, dst |-> << >>]
    ELSE [raised |-> FALSE, written |-> TRUE, dst |-> f.bytes]

\* hits taken from the fallback patterns whatever the finding holds
HitsToRedactFallback(finding, text) == ExtraHits(text)

\* the hits _process_and_copy_file redacts: the finding's, or the fallback's
\* when the finding has none
HitsToRedact(finding, text) ==
    IF DOMAIN finding.hits # {} THEN finding.hits ELSE ExtraHits(text)

\* _process_and_copy_file after a plain shutil.copy2 whose result is copy
Copied(copy, kf, reg) ==
    [written |-> copy.written, dst |-> copy.dst, encrypted |-> FALSE,
     raised |-> copy.raised, file |-> kf, reg |-> reg]

\* _encrypt_sensitive_in_text on the text read and the hits chosen for it
EncryptRead(text, finding, order, bodyOf, failing, kf, fresh, reg) ==
    EncryptSensitiveInText(text, HitsToRedact(finding, text), order, bodyOf, failing,
                           kf, fresh, reg)

\* the branches without the test of the risk label
BranchesAnyLabel(f, finding, io, copy, enc, kf, reg, sep) ==
    IF finding = NoFinding
    THEN Copied(copy, kf, reg)
    ELSE IF ~IsTextFile(f)
    THEN Copied(copy, kf, reg)
    ELSE IF io.readFails
    THEN Copied(copy, kf, reg)
    ELSE IF io.writeFails
    THEN Copied(copy, enc.file, enc.reg)
    ELSE [written |-> TRUE, dst |-> WriteText(enc.out, sep), encrypted |-> TRUE,
          raised |-> FALSE, file |-> enc.file, reg |-> enc.reg]

\* The branches of _process_and_copy_file: copy is what shutil.copy2 does to
\* the file, enc what _encrypt_sensitive_in_text returns for its text.
\* [written, dst, encrypted, raised, file, reg]: whether the destination file
\* was written and its bytes, the value returned, whether an exception left
\* the function, the key file and the tokens issued.  io.readFails and
\* io.writeFails are I/O errors of read_text and write_text.
Branches(f, finding, io, copy, enc, kf, reg, sep) ==
    IF finding = NoFinding \/ finding.risk_label \notin {"Medium", "High"}
    THEN Copied(copy, kf, reg)
    ELSE IF ~IsTextFile(f)
    THEN Copied(copy, kf, reg)
    ELSE IF io.readFails
    THEN Copied(copy, kf, reg)
    ELSE IF io.writeFails
    THEN Copied(copy, enc.file, enc.reg)
    ELSE [written |-> TRUE, dst |-> WriteText(enc.out, sep), encrypted |-> TRUE,
          raised |-> FALSE, file |-> enc.file, reg |-> enc.reg]

\* _process_and_copy_file(src, dst, findings_for_file)
ProcessAndCopyFile(f, finding, io, order, bodyOf, failing, kf, fresh, reg, sep) ==
    Branches(f, finding, io, Copy2(f, io),
             EncryptRead(ReadText(f.bytes), finding, order, bodyOf, failing, kf, fresh, reg),
             kf, reg, sep)

-----------------------------------------------------------------------------
(* The files of the model *)

\* longest file, in chunks
MaxChunks == 2

\* the pieces files are made of: a card code, two passwords of which one
\* contains the other, a line end, a byte that is not UTF-8, a zero byte
Chunks ==
    <<<<"c", "v", "v", " ", "1", "2", "3", " ">>,
      <<"p", "w", "d", ":", "A", "A", "A", "A", "g", ",">>,
      <<"p", "w", "d", ":", "A", "A", "A", "A", " ">>,
      <<"CR", "LF">>,
      <<"BAD">>,
      <<"NUL">>>>

RECURSIVE Join(_)
Join(q) == IF q = << >> THEN << >> ELSE Chunks[Head(q)] \o Join(Tail(q))

Contents == {Join(q) : q \in UNION {[1..n -> 1..Len(Chunks)] : n \in 0..MaxChunks}}

\* what the embedding model returns, in thousandths
AiScores == {0, 500}

\* what the learned classifier returns, in thousandths
MlScores == {0}

Files(contents) == [bytes : contents, readable : BOOLEAN, ai : AiScores, ml : MlScores]

\* scan_file is a function of the file alone: its results, computed once
ScanTable == [f \in Files(Contents \cup {<<"x">>}) |-> ScanFile(f)]

Scanned(f) == ScanTable[f]

-----------------------------------------------------------------------------
(* app/utils/dlp.py: scan_directory *)

\* A directory tree is a function from the relative paths of its files to the
\* files; raising are the files whose scan_file raises (a model call fails).

\* the results scan_directory keeps: those that are not {}
Kept(found) == [p \in {q \in DOMAIN found : found[q] # NoFinding} |-> found[p]]

\* a scan_directory without the try/except around scan_file
ScanDirectoryNoCatch(node, raising) ==
    [raised |-> node.exists /\ raising \cap DOMAIN node.files # {},
     results |-> IF ~node.exists THEN << >>
                 ELSE Kept([p \in DOMAIN node.files \ raising |->
                                Scanned(node.files[p])])]

\* scan_directory: [raised, results]; a file whose scan raises is skipped, a
\* file whose scan_file result is {} is left out
ScanDirectory(node, raising) ==
    [raised |-> FALSE,
     results |-> IF ~node.exists THEN << >>
                 ELSE Kept([p \in DOMAIN node.files \ raising |->
                                Scanned(node.files[p])])]

-----------------------------------------------------------------------------
(* app/main.py: scan_endpoint *)

\* the response of scan_endpoint to the findings of scan_directory
Response(root_path, srcs, scan, raising) ==
    IF scan.raised
    THEN [op |-> "scan", rootPath |-> root_path, status |-> 500,
          detail |-> "Internal Server Error"]
    ELSE [op |-> "scan", rootPath |-> root_path, status |-> 200,
          detail |-> "ok",
          total_files_scanned |-> Cardinality(DOMAIN srcs[root_path].files),
          matching_files_count |-> Cardinality(DOMAIN scan.results),
          findings |-> scan.results,
          raising |-> raising]

\* POST /scan: the response
ScanEndpoint(root_path, srcs, raising) ==
    IF root_path = ""
    THEN [op |-> "scan", rootPath |-> root_path, status |-> 400,
          detail |-> "rootPath not provided"]
    ELSE IF ~srcs[root_path].exists
    THEN [op |-> "scan", rootPath |-> root_path, status |-> 400,
          detail |-> "Path does not exist"]
    ELSE Response(root_path, srcs, ScanDirectory(srcs[root_path], raising), raising)

-----------------------------------------------------------------------------
(* app/routes/backup_routes.py: routes *)

\* the order in which os.walk meets the files: a directory's files before
\* those of its subdirectories
WalkOrder == <<"a.txt", "sub/b.txt">>

Walk(tree) == SelectSeq(WalkOrder, LAMBDA p : p \in DOMAIN tree)

\* the checks without the test of the destination
ValidateBackupNoDestination(source, name, srcs, bks) ==
    IF source = "" \/ name = "" THEN "sourcePath and backupName required"
    ELSE IF ~srcs[source].exists THEN "Source path does not exist"
    ELSE "ok"

\* the checks of create_backup before it starts: the HTTP 400 detail, or "ok"
ValidateBackup(source, name, srcs, bks) ==
    IF source = "" \/ name = "" THEN "sourcePath and backupName required"
    ELSE IF ~srcs[source].exists THEN "Source path does not exist"
    ELSE IF bks[name].exists THEN "Backup name already exists"
    ELSE "ok"

\* a function with one more pair
Put(fn, key, val) == [x \in DOMAIN fn \cup {key} |-> IF x = key THEN val ELSE fn[x]]

\* the findings.get(str(src_file)) of create_backup
FindingFor(findings, p) == IF p \in DOMAIN findings THEN findings[p] ELSE NoFinding

\* One pass of the copy loop of create_backup for file p, from state st =
\* [aborted, dir, files, file, reg, encrypted, copied]: r is what
\* _process_and_copy_file did, and when it raised, again is the second copy2,
\* whose exception leaves the request.
Pass(st, p, r, again) ==
    IF ~r.raised
    THEN [aborted |-> FALSE, dir |-> TRUE, files |-> Put(st.files, p, r.dst),
          file |-> r.file, reg |-> r.reg,
          encrypted |-> st.encrypted + (IF r.encrypted THEN 1 ELSE 0),
          copied |-> st.copied + 1]
    ELSE IF ~again.raised
    THEN [aborted |-> FALSE, dir |-> TRUE, files |-> Put(st.files, p, again.dst),
          file |-> r.file, reg |-> r.reg,
          encrypted |-> st.encrypted, copied |-> st.copied + 1]
    ELSE [aborted |-> TRUE, dir |-> TRUE, files |-> st.files,
          file |-> r.file, reg |-> r.reg,
          encrypted |-> st.encrypted, copied |-> st.copied]

CopyStep(st, f, p, finding, io, order, bodyOf, failing, fresh, sep) ==
    Pass(st, p,
         ProcessAndCopyFile(f, finding, io, order, bodyOf, failing,
                            st.file, fresh, st.reg, sep),
         Copy2(f, [copyFails |-> io.retryFails]))

\* the key Fernet.generate_key() returns to the service, which generates a
\* key once and never replaces it
ServiceKeys == {"k1"}

\* the tokens _process_and_copy_file will encrypt in f
TokensToRedact(f, finding) ==
    IF finding = NoFinding \/ finding.risk_label \notin {"Medium", "High"} \/ ~IsTextFile(f)
    THEN {}
    ELSE Tokens(HitsToRedact(finding, ReadText(f.bytes)))

\* what a pass of the loop leaves open for a file with these tokens: the I/O
\* errors, the order of the sort, the Fernet tokens among bodies, and the
\* tokens whose encryption raises
Choices(tokens, st, bodies) ==
    IoFaults \X SortedTokens(tokens) \X BodyChoices(tokens, st.reg, st.file, bodies)
             \X SUBSET tokens

\* the states the copy loop can end in, from the k-th file of the walk on
RECURSIVE CopyLoop(_, _, _, _, _, _, _, _)
CopyLoop(walk, k, st, tree, findings, fresh, sep, bodies) ==
    IF k > Len(walk) \/ st.aborted
    THEN {st}
    ELSE LET p == walk[k]
             f == tree[p]
             finding == FindingFor(findings, p)
         IN  UNION {CopyLoop(walk, k + 1,
                             CopyStep(st, f, p, finding, c[1], c[2], c[3], c[4], fresh, sep),
                             tree, findings, fresh, sep, bodies) :
                    c \in Choices(TokensToRedact(f, finding), st, bodies)}

\* the metadata entry of create_backup
Entry(source, name, findings, st) ==
    LET n == Cardinality(DOMAIN findings)
        RECURSIVE Sum(_)
        Sum(ps) == IF ps = {} THEN 0
                   ELSE LET p == CHOOSE q \in ps : TRUE
                        IN  findings[p].risk_score + Sum(ps \ {p})
        total == Sum(DOMAIN findings)
    IN  [backupName |-> name, sourcePath |-> source, backupPath |-> name,
         totalFiles |-> st.copied, sensitiveFiles |-> n,
         encryptedFiles |-> st.encrypted,
         avgRiskScore |-> IF n > 0 THEN Round(100 * total, n) ELSE 0,
         riskLabel |-> IF n > 0 /\ total >= 70 * n THEN "High"
                       ELSE IF n > 0 /\ total >= 35 * n THEN "Medium"
                       ELSE "Low"]

-----------------------------------------------------------------------------
(* The crypto helpers called one after the other in one process *)

\* tokens handed to encrypt_str
CryptoTokens == {<<"1", "2", "3">>, <<"A", "A", "A", "A">>, << >>}

\* strings handed to decrypt_str: placeholders, placeholders without or with
\* a damaged marker, bare tokens, a marker with nothing or junk behind it
DecryptInputs ==
    {Marker \o b : b \in Bodies}
        \cup Bodies
        \cup {<<"x", "E", "N", "C", ">">> \o b : b \in Bodies}
        \cup CryptoTokens
        \cup {Marker, Marker \o <<"!", "!">>}

InitCrypto ==
    /\ keyFile \in {NoKey} \cup Keys
    /\ issued \in SUBSET {[body |-> b, key |-> OldKey, pt |-> <<"1", "2", "3">>, here |-> FALSE] :
                            b \in {Header \o <<"B", "q">>}}
    /\ result = [op |-> "none"]
    /\ linesep = <<"LF">>
    /\ sources = << >>
    /\ backups = << >>
    /\ metadata = << >>
    /\ callers = NoCallers
    /\ traversal = NoWalk

CallGetOrCreateKey ==
    /\ UNCHANGED <<callers, traversal>>
    /\ \E fresh \in Keys :
           LET g == GetOrCreateKey(keyFile, fresh)
           IN  /\ keyFile' = g.file
               /\ result' = [op |-> "key", key |-> g.key]
               /\ UNCHANGED <<issued, linesep, sources, backups, metadata>>

CallEncryptStr ==
    /\ UNCHANGED <<callers, traversal>>
    /\ \E value \in CryptoTokens, fresh \in Keys, body \in Bodies :
           LET e == EncryptStr(value, keyFile, fresh, body)
           IN  /\ CanIssue(issued, body, e.key, value)
               /\ keyFile' = e.file
               /\ issued' = {r \in issued : r.body # body}
                               \cup {[body |-> body, key |-> e.key, pt |-> value, here |-> TRUE]}
               /\ result' = [op |-> "encrypt", input |-> value, ok |-> TRUE, value |-> e.placeholder]
               /\ UNCHANGED <<linesep, sources, backups, metadata>>

CallDecryptStr ==
    /\ UNCHANGED <<callers, traversal>>
    /\ \E p \in DecryptInputs, fresh \in Keys :
           LET d == DecryptStr(p, keyFile, fresh, issued)
           IN  /\ keyFile' = d.file
               /\ result' = [op |-> "decrypt", input |-> p, ok |-> d.ok, value |-> d.value,
                              fetched |-> d.fetched]
               /\ UNCHANGED <<issued, linesep, sources, backups, metadata>>

NextCrypto == CallGetOrCreateKey \/ CallEncryptStr \/ CallDecryptStr

SpecCrypto == InitCrypto /\ [][NextCrypto]_vars

\* tokens encrypt_str has encrypted since the process started
IssuedHere == {r \in issued : r.here}

\* C9: decrypt_str of a placeholder that encrypt_str returned earlier in this
\* process gives back the token that was encrypted, whatever calls of
\* get_or_create_key, encrypt_str and decrypt_str came before or in between.
C9_RoundTrip ==
    result.op = "decrypt" =>
        \A r \in IssuedHere :
            result.input = Marker \o r.body => (result.ok /\ result.value = r.pt)

\* a placeholder of this process was decrypted after a second token had been
\* encrypted as well
C9_Witness ==
    /\ result.op = "decrypt"
    /\ result.ok
    /\ \E r \in IssuedHere : result.input = Marker \o r.body /\ result.value = r.pt
    /\ Cardinality(IssuedHere) >= 2

\* C10: decrypt_str of a string without the marker prefix fails with ValueError
\* (MalformedPlaceholder) before any key or token is touched; of a string with
\* the marker whose token is invalid or was issued under another key it fails
\* with InvalidToken (DecryptionFailed); neither returns a plaintext.
C10_DecryptErrors ==
    result.op = "decrypt" =>
        LET body == Slice(result.input, Len(Marker) + 1, Len(result.input))
        IN  /\ ~StartsWith(result.input, Marker) =>
                    (~result.ok /\ result.value = "ValueError" /\ ~result.fetched)
            /\ (StartsWith(result.input, Marker)
                    /\ \A r \in issued : r.body = body => r.key # keyFile) =>
                    (~result.ok /\ result.value = "InvalidToken")

\* a placeholder issued under the key of an earlier installation was refused
C10_Witness ==
    /\ result.op = "decrypt"
    /\ ~result.ok
    /\ result.value = "InvalidToken"
    /\ \E r \in issued : r.key = OldKey /\ result.input = Marker \o r.body

-----------------------------------------------------------------------------
(* One file through _process_and_copy_file *)

LineSeps == {<<"LF">>, <<"CR", "LF">>}

\* the key encrypt_str will use
KeyInUse(kf, fresh) == GetOrCreateKey(kf, fresh).key

TheFile == sources["docs"].files["a.txt"]

InitRedact ==
    /\ keyFile \in {NoKey, "k1"}
    /\ issued = {}
    /\ linesep \in LineSeps
    /\ \E f \in {g \in Files(Contents) : g.readable} :
        /\ sources = [p \in {"docs"} |-> [exists |-> TRUE, files |-> [n \in {"a.txt"} |-> f]]]
        /\ \E finding \in {Scanned(f), NoFinding} :
             result = [op |-> "scanned", finding |-> finding]
    /\ backups = [n \in {"b1"} |-> [exists |-> FALSE, files |-> << >>]]
    /\ metadata = << >>
    /\ callers = NoCallers
    /\ traversal = NoWalk

\* _process_and_copy_file on the file, with the finding the scan gave
ProcessFile ==
    /\ UNCHANGED <<callers, traversal>>
    /\ result.op = "scanned"
    /\ \E tokens \in {TokensToRedact(TheFile, result.finding)} :
       \E io \in {x \in IoFaults : ~x.retryFails}, fresh \in ServiceKeys,
          failing \in SUBSET tokens :
       \E order \in SortedTokens(tokens) :
       \E bodyOf \in BodyChoices(tokens, issued, KeyInUse(keyFile, fresh), Bodies) :
       \E r \in {ProcessAndCopyFile(TheFile, result.finding, io, order, bodyOf, failing,
                                    keyFile, fresh, issued, linesep)} :
            /\ keyFile' = r.file
            /\ issued' = r.reg
            /\ backups' = [backups EXCEPT !["b1"] =
                   [exists |-> TRUE,
                    files |-> IF r.written THEN [n \in {"a.txt"} |-> r.dst] ELSE << >>]]
            /\ result' = [op |-> "processed", finding |-> result.finding,
                          encrypted |-> r.encrypted, raised |-> r.raised,
                          written |-> r.written, tokens |-> tokens,
                          failing |-> failing]
            /\ UNCHANGED <<linesep, sources, metadata>>

NextRedact == ProcessFile

SpecRedact == InitRedact /\ [][NextRedact]_vars

\* the copy of the file in the backup
TheCopy == backups["b1"].files["a.txt"]

\* the issued token, under the stored key, whose placeholder stands at
\* position i of s
PlaceholdersAt(s, i) ==
    {r \in issued : r.key = keyFile /\ OccursAt(s, Marker \o r.body, i)}

\* s with decrypt(placeholder) put back for every placeholder from position
\* i on; a marker that no valid token follows stays as it is
RECURSIVE Restore(_, _)
Restore(s, i) ==
    IF i > Len(s) THEN << >>
    ELSE IF PlaceholdersAt(s, i) # {}
    THEN LET r == CHOOSE x \in PlaceholdersAt(s, i) : TRUE
         IN  r.pt \o Restore(s, i + Len(Marker) + Len(r.body))
    ELSE <<s[i]>> \o Restore(s, i + 1)

\* C1: a file that was rewritten with redaction equals the original once
\* every placeholder of the copy is replaced by what it decrypts to.
C1_RestoreGivesOriginal ==
    (result.op = "processed" /\ result.encrypted) =>
        Restore(TheCopy, 1) = TheFile.bytes

\* the files the backup does not rewrite: no finding, a label other than
\* Medium and High, or a zero byte or invalid UTF-8 in the sniffed prefix
VerbatimCase(f, finding) ==
    \/ finding = NoFinding
    \/ finding.risk_label \notin {"Medium", "High"}
    \/ \E i \in 1..Min(Len(f.bytes), SniffLen) : f.bytes[i] \in {"NUL", "BAD"}

\* C2: a file without finding, with a risk label other than Medium and High,
\* or with a zero byte or invalid UTF-8 in its sniffed prefix is copied as it
\* is: the copy has the bytes of the original and is not counted as redacted.
C2_VerbatimCopy ==
    (result.op = "processed" /\ result.written /\ VerbatimCase(TheFile, result.finding)) =>
        (TheCopy = TheFile.bytes /\ ~result.encrypted)

\* a text file with hits, labelled Low, was copied
C2_Witness ==
    /\ result.op = "processed"
    /\ result.written
    /\ result.finding # NoFinding
    /\ result.finding.risk_label = "Low"
    /\ DOMAIN result.finding.hits # {}
    /\ IsTextFile(TheFile)
    /\ TheCopy = TheFile.bytes

\* t occurs in s, and s is longer
ProperPart(t, s) == Len(t) < Len(s) /\ Contains(s, t)

\* C3: when one redacted token is part of another, the longer one is replaced
\* as a whole: the copy holds no occurrence of it, and every marker in the
\* copy begins a placeholder that decrypts to a token of the file.
C3_LongerTokenIntact ==
    (/\ result.op = "processed"
     /\ result.encrypted
     /\ \E long, short \in result.tokens \ result.failing : ProperPart(short, long)) =>
        /\ \A long, short \in result.tokens \ result.failing :
                ProperPart(short, long) => ~Contains(TheCopy, long)
        /\ \A i \in 1..Len(TheCopy) :
                OccursAt(TheCopy, Marker, i) =>
                    \E r \in PlaceholdersAt(TheCopy, i) : r.pt \in result.tokens

-----------------------------------------------------------------------------
(* The service: scan, backup and delete requests *)

\* most entries of metadata.json
MaxEntries == 2

\* the paths a request can name: none, one that does not exist, a directory
SourcePaths == {"", "nosuch", "docs"}

\* the backup names a request can give
BackupNames == {"", "b1"}

\* the files of the directory: an empty one, one without sensitive text, a
\* card code the scan labels Medium, the same in a file that cannot be read
TreeFiles ==
    {[bytes |-> << >>, readable |-> TRUE, ai |-> 0, ml |-> 0],
     [bytes |-> <<"x">>, readable |-> TRUE, ai |-> 0, ml |-> 0],
     [bytes |-> Chunks[1], readable |-> TRUE, ai |-> 500, ml |-> 0],
     [bytes |-> Chunks[1], readable |-> FALSE, ai |-> 500, ml |-> 0]}

\* the Fernet tokens the encryptions of the service return
ServiceBodies == {Header \o <<"B", "q">>}

Trees == UNION {[ps -> TreeFiles] : ps \in SUBSET {WalkOrder[i] : i \in DOMAIN WalkOrder}}

NoDir == [exists |-> FALSE, files |-> << >>]

Init ==
    /\ keyFile = NoKey
    /\ issued = {}
    /\ linesep = <<"LF">>
    /\ \E tree \in Trees :
        sources = [p \in SourcePaths |->
                    IF p = "docs" THEN [exists |-> TRUE, files |-> tree] ELSE NoDir]
    /\ backups = [n \in BackupNames |-> NoDir]
    /\ metadata = << >>
    /\ result = [op |-> "none"]
    /\ callers = NoCallers
    /\ traversal = NoWalk

\* POST /scan
Scan ==
    /\ UNCHANGED <<callers, traversal>>
    /\ \E root_path \in SourcePaths :
       \E raising \in SUBSET DOMAIN sources[root_path].files :
           /\ result' = ScanEndpoint(root_path, sources, raising)
           /\ UNCHANGED <<keyFile, issued, linesep, sources, backups, metadata>>

\* POST /backup
CreateBackup ==
    /\ UNCHANGED <<callers, traversal>>
    /\ \E source \in SourcePaths, name \in BackupNames :
       \E v \in {ValidateBackup(source, name, sources, backups)} :
           IF v # "ok"
           THEN /\ result' = [op |-> "backup", source |-> source, name |-> name,
                              status |-> 400, detail |-> v]
                /\ UNCHANGED <<keyFile, issued, linesep, sources, backups, metadata>>
           ELSE /\ Len(metadata) < MaxEntries
                /\ \E fresh \in ServiceKeys :
                   \E raising \in SUBSET DOMAIN sources[source].files :
                   \E findings \in {ScanDirectory(sources[source], raising).results} :
                   \E st \in CopyLoop(Walk(sources[source].files), 1,
                                      [aborted |-> FALSE, dir |-> FALSE, files |-> << >>,
                                       file |-> GetOrCreateKey(keyFile, fresh).file,
                                       reg |-> issued, encrypted |-> 0, copied |-> 0],
                                      sources[source].files, findings, fresh, linesep,
                                      ServiceBodies) :
                   \E entry \in {Entry(source, name, findings, st)} :
                       /\ keyFile' = st.file
                       /\ issued' = st.reg
                       /\ backups' = [backups EXCEPT ![name] =
                                       [exists |-> st.dir, files |-> st.files]]
                       /\ IF st.aborted
                          THEN /\ metadata' = metadata
                               /\ result' = [op |-> "backup", source |-> source,
                                             name |-> name, status |-> 500,
                                             detail |-> "Internal Server Error"]
                          ELSE /\ metadata' = Append(metadata, entry)
                               /\ result' = [op |-> "backup", source |-> source,
                                             name |-> name, status |-> 200,
                                             detail |-> "Backup created successfully",
                                             metadata |-> entry,
                                             findings |-> findings]
                       /\ UNCHANGED <<linesep, sources>>

\* DELETE /backup/{name}
DeleteBackup ==
    /\ UNCHANGED <<callers, traversal>>
    /\ \E name \in BackupNames :
           IF \A i \in DOMAIN metadata : metadata[i].backupName # name
           THEN /\ result' = [op |-> "delete", name |-> name, status |-> 404,
                              detail |-> "Backup not found"]
                /\ UNCHANGED <<keyFile, issued, linesep, sources, backups, metadata>>
           ELSE LET first == CHOOSE i \in DOMAIN metadata :
                               /\ metadata[i].backupName = name
                               /\ \A j \in 1..(i - 1) : metadata[j].backupName # name
                    path == metadata[first].backupPath
                IN  /\ backups' = [backups EXCEPT ![path] = NoDir]
                    /\ metadata' = SelectSeq(metadata, LAMBDA e : e.backupName # name)
                    /\ result' = [op |-> "delete", name |-> name, status |-> 200,
                                  detail |-> "deleted successfully"]
                    /\ UNCHANGED <<keyFile, issued, linesep, sources>>

Next == Scan \/ CreateBackup \/ DeleteBackup

Spec == Init /\ [][Next]_vars

-----------------------------------------------------------------------------
(* Claims about the service *)

\* the errors a backup request calls for, by the detail of the HTTP 400:
\* InvalidInput, SourceNotFound, DestinationExists
ErrorsOf(source, name) ==
    {d \in {"sourcePath and backupName required", "Source path does not exist",
            "Backup name already exists"} :
        \/ d = "sourcePath and backupName required" /\ (source = "" \/ name = "")
        \/ d = "Source path does not exist" /\ source # "" /\ ~sources[source].exists
        \/ d = "Backup name already exists" /\ name # "" /\ backups[name].exists}

\* C4: a backup request with an empty argument, a source path that does not
\* exist or a destination that exists is refused with the matching error, and
\* the request leaves the backups, the metadata and the key file as they were.
C4_RejectedBeforeStart ==
    [][(result'.op = "backup" /\ ErrorsOf(result'.source, result'.name) # {}) =>
         /\ result'.status = 400
         /\ result'.detail \in ErrorsOf(result'.source, result'.name)
         /\ UNCHANGED <<keyFile, issued, backups, metadata>>]_vars

\* a request was refused because its destination holds a recorded backup
C4_Witness ==
    /\ result.op = "backup"
    /\ result.status = 400
    /\ result.detail = "Backup name already exists"
    /\ backups[result.name].files # << >>
    /\ Len(metadata) = 1

\* C5: two backups are never recorded under the same name: once a backup
\* under a name has succeeded, a later request with that name is refused until
\* the backup is deleted.
C5_OneBackupPerName ==
    \A i, j \in DOMAIN metadata :
        metadata[i].backupName = metadata[j].backupName => i = j

\* C6: a backup that started never aborts on a per-file error: it answers with
\* its summary and every file of the source tree is in the backup.
C6_PerFileErrorNeverAborts ==
    (result.op = "backup" /\ result.status # 400) =>
        /\ result.status = 200
        /\ DOMAIN sources[result.source].files \subseteq DOMAIN backups[result.name].files

\* C7: a scan of a path that does not exist fails with PathNotFound; a scan of
\* an existing path succeeds, leaves out the files whose scan raised and holds
\* the finding of every other file that has one.
C7_ScanErrors ==
    result.op = "scan" =>
        LET node == sources[result.rootPath]
        IN  /\ (result.rootPath # "" /\ ~node.exists) =>
                  (result.status = 400 /\ result.detail = "Path does not exist")
            /\ node.exists =>
                  /\ result.status = 200
                  /\ DOMAIN result.findings \cap result.raising = {}
                  /\ \A p \in DOMAIN node.files \ result.raising :
                        ScanFile(node.files[p]) # NoFinding =>
                            /\ p \in DOMAIN result.findings
                            /\ result.findings[p] = ScanFile(node.files[p])

\* one file's scan raised and the other file is in the result
C7_Witness ==
    /\ result.op = "scan"
    /\ result.status = 200
    /\ result.raising # {}
    /\ DOMAIN result.findings # {}

\* C8: the result of a scan holds a file only if a detector had a hit in it.
C8_OnlyFilesWithHits ==
    (result.op = "scan" /\ result.status = 200) =>
        \A p \in DOMAIN result.findings : DOMAIN result.findings[p].hits # {}

-----------------------------------------------------------------------------
(* get_or_create_key entered by several threads: the endpoints are plain    *)
(* functions, which the server runs in a pool of threads                    *)

Callers == {"t1", "t2", "t3"}

\* the key file between the open and the write of write_bytes
EmptyFile == "empty"

InitKeyRace ==
    /\ keyFile \in {NoKey, "k1"}
    /\ issued = {}
    /\ linesep = <<"LF">>
    /\ sources = << >>
    /\ backups = << >>
    /\ metadata = << >>
    /\ result = [op |-> "none"]
    /\ callers = [c \in Callers |-> [pc |-> "exists", key |-> NoKey, wrote |-> FALSE]]
    /\ traversal = NoWalk

\* caller c moves to pc with the local key and the key file as given
Move(c, pc, key, wrote, file) ==
    /\ callers' = [callers EXCEPT ![c] = [pc |-> pc, key |-> key, wrote |-> wrote]]
    /\ keyFile' = file
    /\ UNCHANGED <<issued, linesep, sources, backups, metadata, result, traversal>>

\* line 13: if KEY_PATH.exists()
KeyExists(c) ==
    /\ callers[c].pc = "exists"
    /\ Move(c, IF keyFile # NoKey THEN "read" ELSE "generate", NoKey, FALSE, keyFile)

\* line 14: return KEY_PATH.read_bytes()
KeyRead(c) ==
    /\ callers[c].pc = "read"
    /\ Move(c, "done", keyFile, FALSE, keyFile)

\* line 15: key = Fernet.generate_key()
KeyGenerate(c) ==
    /\ callers[c].pc = "generate"
    /\ \E fresh \in Keys : Move(c, "open", fresh, FALSE, keyFile)

\* line 16: KEY_PATH.write_bytes(key) opens the file, which truncates it
KeyOpen(c) ==
    /\ callers[c].pc = "open"
    /\ Move(c, "write", callers[c].key, FALSE, EmptyFile)

\* line 16 and 17: the bytes are written and the key returned
KeyWrite(c) ==
    /\ callers[c].pc = "write"
    /\ Move(c, "done", callers[c].key, TRUE, callers[c].key)

NextKeyRace ==
    \E c \in Callers :
        KeyExists(c) \/ KeyRead(c) \/ KeyGenerate(c) \/ KeyOpen(c) \/ KeyWrite(c)

SpecKeyRace == InitKeyRace /\ [][NextKeyRace]_vars

\* C11: once every caller of get_or_create_key has returned, the key was
\* written at most once and every caller holds the key that is stored.
C11_KeyWrittenOnce ==
    (\A c \in Callers : callers[c].pc = "done") =>
        /\ Cardinality({c \in Callers : callers[c].wrote}) <= 1
        /\ \A c \in Callers : callers[c].key = keyFile

-----------------------------------------------------------------------------
(* The scoring of scan_file on what the detectors and the models returned  *)

\* the detectors of scan_file, in the order it runs them
Detectors ==
    <<"aadhaar", "pan", "email", "phone", "passport", "password", "bank_account",
      "ifsc", "cvv", "credit_card">>

\* hits of the first n detectors, each with k matches
HitsOfSize(n, k) ==
    [d \in {Detectors[i] : i \in 1..n} |-> [j \in 1..k |-> <<"t", DigitSeq[j]>>]]

\* most matches of one detector
MaxMatches == 2

HitsChoices == {HitsOfSize(n, k) : n \in 0..Len(Detectors), k \in 1..MaxMatches}

\* cosine similarities the embedding model can return, in thousandths; 0
\* also when the model is not installed
Similarities == {-1000, -500, 0, 250, 500, 1000}

\* probabilities the learned classifier can return, in thousandths
Probabilities == {0, 500, 1000}

InitScore ==
    /\ keyFile = NoKey
    /\ issued = {}
    /\ linesep = <<"LF">>
    /\ sources = << >>
    /\ backups = << >>
    /\ metadata = << >>
    /\ \E hits \in HitsChoices, kw \in 0..Len(SENSITIVE_KEYWORDS),
          ai \in Similarities, ml \in Probabilities :
         result = [op |-> "detected", hits |-> hits, kw |-> kw, ai |-> ai, ml |-> ml]
    /\ callers = NoCallers
    /\ traversal = NoWalk

\* scan_file from the confidence heuristic on, lines 247 to 272
Score ==
    /\ result.op = "detected"
    /\ \E ctx \in {Hybrid(result.kw, result.ai, result.ml)} :
         result' = [op |-> "scored", hits |-> result.hits, kw |-> result.kw,
                    ai |-> result.ai, ml |-> result.ml, ctx |-> ctx,
                    finding |-> ScanScored(result.hits, result.kw, ctx)]
    /\ UNCHANGED <<keyFile, issued, linesep, sources, backups, metadata, callers, traversal>>

NextScore == Score

SpecScore == InitScore /\ [][NextScore]_vars

\* C12: the risk score of a finding lies in 0..100 and its label is High from
\* 70 on, Medium from 35 to 69, Low below.
C12_ScoreAndLabel ==
    result.op = "scored" =>
        /\ result.finding.risk_score \in 0..100
        /\ result.finding.risk_label =
              (IF result.finding.risk_score >= 70 THEN "High"
               ELSE IF result.finding.risk_score >= 35 /\ result.finding.risk_score < 70
               THEN "Medium"
               ELSE "Low")

\* a finding whose score is exactly 70 was labelled
C12_Witness ==
    /\ result.op = "scored"
    /\ result.finding.risk_score = 70
    /\ result.finding.risk_label = "High"

\* C13: without a hit the risk score is 0, the label Low and the confidence
\* low, whatever the context score.
C13_NoHitsIsSafe ==
    (result.op = "scored" /\ DOMAIN result.hits = {}) =>
        /\ result.finding.risk_score = 0
        /\ result.finding.risk_label = "Low"
        /\ result.finding.confidence = "low"

\* a text without hits and with the highest context score was scored
C13_Witness ==
    /\ result.op = "scored"
    /\ DOMAIN result.hits = {}
    /\ result.ctx = 10000
    /\ result.finding.risk_score = 0

\* C16: the context score lies in [0, 1], here in ten-thousandths.
C16_ContextScoreInRange ==
    result.op = "scored" => (result.ctx >= 0 /\ result.ctx <= 10000)

\* the context scores of the inputs above
CtxChoices ==
    {Hybrid(kw, ai, ml) : kw \in 0..Len(SENSITIVE_KEYWORDS), ai \in Similarities,
                          ml \in Probabilities}

\* q is raw / 10000 rounded to the nearest integer, a tie to the even one
IsRounded(q, raw) ==
    \/ 2 * (raw - 10000 * q) < 10000 /\ 2 * (10000 * q - raw) < 10000
    \/ 2 * (raw - 10000 * q) = 10000 /\ q % 2 = 0
    \/ 2 * (10000 * q - raw) = 10000 /\ q % 2 = 0

\* what the risk formula gives for n detector types, kw keywords and the
\* context score ctx
IsRiskOf(score, n, kw, ctx) ==
    \E q \in 0..(2 * (20 * n + 20)) :
        /\ IsRounded(q, (20 * n + (IF kw >= 2 THEN 20 ELSE 10)) * (10000 + ctx))
        /\ score = (IF q > 100 THEN 100 ELSE q)

\* C20: with at least one hit the risk score is round((20 * n + boost) *
\* (1 + contextScore)) clamped to [0, 100], n the number of detector types
\* that hit and boost 20 with two or more keywords and 10 otherwise; it is the
\* same for any number of matches per detector, does not decrease with n or
\* with the context score, and is at most twice 20 * n + boost.
C20_RiskFormula ==
    (result.op = "scored" /\ DOMAIN result.hits # {}) =>
        /\ IsRiskOf(result.finding.risk_score, Cardinality(DOMAIN result.hits),
                    result.kw, result.ctx)
        /\ \A other \in HitsChoices :
              /\ DOMAIN other = DOMAIN result.hits =>
                    ScanScored(other, result.kw, result.ctx).risk_score
                        = result.finding.risk_score
              /\ (other # << >> /\ Cardinality(DOMAIN other) >= Cardinality(DOMAIN result.hits)) =>
                    ScanScored(other, result.kw, result.ctx).risk_score
                        >= result.finding.risk_score
        /\ \A ctx \in CtxChoices :
              ctx >= result.ctx =>
                 ScanScored(result.hits, result.kw, ctx).risk_score
                     >= result.finding.risk_score
        /\ result.finding.risk_score
              <= 2 * (20 * Cardinality(DOMAIN result.hits) + (IF result.kw >= 2 THEN 20 ELSE 10))

\* two detectors with two matches each and two keywords were scored below
\* the clamp, with a context score that is not 0
C20_Witness ==
    /\ result.op = "scored"
    /\ Cardinality(DOMAIN result.hits) = 2
    /\ \A d \in DOMAIN result.hits : Len(result.hits[d]) = 2
    /\ result.kw = 2
    /\ result.ctx = 5000
    /\ result.finding.risk_score = 90

-----------------------------------------------------------------------------
(* The credit card detector of scan_file on texts that hold one number     *)

\* most digits of a number
MaxDigits == 20

\* the last digits of a number, which take every value
FreeDigits == 1

\* the digits before the free ones: every position takes five digits, low
\* and high ones, over the shifts
Leading(n, shift) == [i \in 1..n |-> DigitSeq[((i + shift) % 10) + 1]]

CardNumbers ==
    {Leading(len - FreeDigits, shift) \o free :
        len \in 12..MaxDigits, shift \in 0..4, free \in [1..FreeDigits -> Digit]}

\* the number in groups of four digits
RECURSIVE Grouped(_, _)
Grouped(number, sep) ==
    IF Len(number) <= 4 THEN number
    ELSE SubSeq(number, 1, 4) \o <<sep>> \o Grouped(SubSeq(number, 5, Len(number)), sep)

Layouts == {"alone", "prose", "spaces", "hyphens", "followed"}

TextOf(number, layout) ==
    CASE layout = "alone" -> number
      [] layout = "prose" -> <<"c", "a", "r", "d", ":", " ">> \o number \o <<".", "LF">>
      [] layout = "spaces" -> Grouped(number, " ")
      [] layout = "hyphens" -> Grouped(number, "-")
      [] layout = "followed" -> number \o <<" ", "1", "2">>

InitCard ==
    /\ keyFile = NoKey
    /\ issued = {}
    /\ linesep = <<"LF">>
    /\ sources = << >>
    /\ backups = << >>
    /\ metadata = << >>
    /\ \E number \in CardNumbers, layout \in Layouts :
         result = [op |-> "typed", number |-> number, layout |-> layout,
                   text |-> TextOf(number, layout)]
    /\ callers = NoCallers
    /\ traversal = NoWalk

\* _luhn_check on the number, and the detectors of scan_file on the text
ScanCard ==
    /\ result.op = "typed"
    /\ \E hits \in {Hits(result.text)} :
         result' = [op |-> "scanned", number |-> result.number, layout |-> result.layout,
                    text |-> result.text, luhn |-> LuhnCheck(result.number),
                    hits |-> hits]
    /\ UNCHANGED <<keyFile, issued, linesep, sources, backups, metadata, callers, traversal>>

NextCard == ScanCard

SpecCard == InitCard /\ [][NextCard]_vars

\* the Luhn sum of the digits from position k, counted from the rightmost one
RECURSIVE SumFromRight(_, _)
SumFromRight(number, k) ==
    IF k > Len(number) THEN 0
    ELSE LET d == DigitVal(number[Len(number) + 1 - k])
         IN  (IF k % 2 = 1 THEN d ELSE IF 2 * d > 9 THEN 2 * d - 9 ELSE 2 * d)
                 + SumFromRight(number, k + 1)

PassesLuhn(number) ==
    /\ Len(number) >= 13
    /\ Len(number) <= 19
    /\ \A i \in 1..Len(number) : number[i] \in Digit
    /\ SumFromRight(number, 1) % 10 = 0

\* C14: every token under credit_card is a string of 13 to 19 digits that
\* passes the Luhn checksum taken from the right; _luhn_check agrees with
\* that checksum on every digit string; a valid number that stands alone as
\* a digit string, as the whole text or in prose, is emitted as exactly that
\* digit string.
C14_Luhn ==
    result.op = "scanned" =>
        /\ result.luhn = PassesLuhn(result.number)
        /\ "credit_card" \in DOMAIN result.hits =>
              \A k \in 1..Len(result.hits.credit_card) :
                  PassesLuhn(result.hits.credit_card[k])
        /\ (PassesLuhn(result.number) /\ result.layout \in {"alone", "prose"}) =>
              /\ "credit_card" \in DOMAIN result.hits
              /\ result.hits.credit_card = <<result.number>>

\* a valid number of an odd length that stands in prose was emitted
C14_Witness ==
    /\ result.op = "scanned"
    /\ result.layout = "prose"
    /\ Len(result.number) = 15
    /\ result.luhn
    /\ "credit_card" \in DOMAIN result.hits
    /\ result.hits.credit_card = <<result.number>>

-----------------------------------------------------------------------------
(* Claims about the models of the context score and about the copies       *)

\* C15: a file with hits whose model call raised is still in the result of
\* the scan, with a context score from the keyword heuristic alone.
C15_ModelFailureDegrades ==
    (result.op = "scan" /\ result.status = 200) =>
        \A p \in result.raising :
            LET text == ReadFileSafe(sources[result.rootPath].files[p])
            IN  Hits(text) # << >> =>
                   /\ p \in DOMAIN result.findings
                   /\ result.findings[p].context_score
                         = RoundCtx(Hybrid(KeywordHits(text), 0, 0))

\* the files of the backup whose copy holds a placeholder the source file
\* does not hold
Redacted(source, name) ==
    {p \in DOMAIN backups[name].files :
        /\ Contains(backups[name].files[p], Marker \o Header)
        /\ ~Contains(sources[source].files[p].bytes, Marker \o Header)}

\* C18: encryptedFiles of the summary is the number of files in whose copy a
\* token was replaced by a placeholder.
C18_EncryptedFilesCount ==
    (result.op = "backup" /\ result.status = 200) =>
        result.metadata.encryptedFiles
            = Cardinality(Redacted(result.source, result.name))

\* the longest of the tokens that occurs at position i of s, << >> if none
LongestAt(s, i, tokens) ==
    LET here == {t \in tokens : OccursAt(s, t, i)}
    IN  IF here = {} THEN << >>
        ELSE CHOOSE t \in here : \A u \in here : Len(u) <= Len(t)

\* the placeholder the run made for token t
PlaceholderOf(t, reg) == Marker \o (CHOOSE r \in reg : r.pt = t).body

\* s from position i on with every occurrence of a token replaced by its
\* placeholder, except the tokens whose encryption failed
RECURSIVE BestEffort(_, _, _, _, _)
BestEffort(s, i, tokens, failing, reg) ==
    IF i > Len(s) THEN << >>
    ELSE IF LongestAt(s, i, tokens) = << >>
    THEN <<s[i]>> \o BestEffort(s, i + 1, tokens, failing, reg)
    ELSE IF LongestAt(s, i, tokens) \in failing
    THEN LongestAt(s, i, tokens)
            \o BestEffort(s, i + Len(LongestAt(s, i, tokens)), tokens, failing, reg)
    ELSE PlaceholderOf(LongestAt(s, i, tokens), reg)
            \o BestEffort(s, i + Len(LongestAt(s, i, tokens)), tokens, failing, reg)

\* C19: when the encryption of a token fails, the file is still written, with
\* the occurrences of that token unchanged, every other token replaced by its
\* placeholder and the rest of the text as it was.
C19_FailedTokenLeftInPlace ==
    (result.op = "processed" /\ result.encrypted /\ result.failing # {}) =>
        /\ result.written
        /\ TheCopy = WriteText(BestEffort(ReadText(TheFile.bytes), 1, result.tokens,
                                          result.failing, issued),
                               linesep)

-----------------------------------------------------------------------------
(* The walk of create_backup over a source tree in the working directory   *)

\* A path is the sequence of its names from the working directory on, and
\* the file system the set of the paths of its regular files; a directory
\* exists when a file lies below it.  Every copy succeeds here: the I/O
\* errors of a copy are those of CopyStep.

\* the names of the model, in the order a directory lists them
Names == <<"a.txt", "backup_key.key", "metadata.json", "b1", "backups", "data", "docs", "sub">>

Rank(n) == CHOOSE i \in DOMAIN Names : Names[i] = n

RECURSIVE Ordered(_)
Ordered(names) ==
    IF names = {} THEN << >>
    ELSE LET n == CHOOSE x \in names : \A y \in names : Rank(x) <= Rank(y)
         IN  <<n>> \o Ordered(names \ {n})

\* BACKUP_DIR / name for the name b1
BackupPath == <<"data", "backups", "b1">>

\* the longest path the file system accepts, in names
MaxDepth == 8

\* path p lies below directory d
Below(d, p) == Len(d) < Len(p) /\ SubSeq(p, 1, Len(d)) = d

\* Path(p).relative_to(Path(d))
RelativeTo(p, d) == SubSeq(p, Len(d) + 1, Len(p))

\* what os.walk lists in directory top: its files and its subdirectories
FilesIn(fs, top) == {p[Len(p)] : p \in {q \in fs : Below(top, q) /\ Len(q) = Len(top) + 1}}

DirsIn(fs, top) ==
    {p[Len(top) + 1] : p \in {q \in fs : Below(top, q) /\ Len(q) > Len(top) + 1}}

\* the key file and metadata.json, which exist when the walk begins
ServiceFiles == {<<"data", "backup_key.key">>, <<"data", "backups", "metadata.json">>}

UserFiles == {<<"docs", "a.txt">>, <<"docs", "sub", "a.txt">>}

\* the sourcePath of the request: a directory of documents, the data
\* directory, the working directory, the directory of the backups
SourceDirs == {<<"docs">>, <<"docs", "sub">>, <<"data">>, << >>, <<"data", "backups">>}

InitWalk ==
    /\ keyFile = "k1"
    /\ issued = {}
    /\ linesep = <<"LF">>
    /\ sources = << >>
    /\ backups = << >>
    /\ metadata = << >>
    /\ result = [op |-> "none"]
    /\ callers = NoCallers
    /\ \E user \in SUBSET UserFiles, source \in SourceDirs :
         /\ \E p \in ServiceFiles \cup user : Below(source, p)
         /\ traversal = [status |-> "walking", source |-> source,
                         fs |-> ServiceFiles \cup user,
                         original |-> {p \in ServiceFiles \cup user : Below(source, p)},
                         stack |-> <<source>>, root |-> source, pending |-> << >>,
                         processed |-> << >>]

\* rel_dest of the first pending file
RelDest ==
    BackupPath \o RelativeTo(traversal.root, traversal.source) \o <<Head(traversal.pending)>>

Walking == traversal.status = "walking"

\* os.walk yields the next directory: it lists its files and pushes its
\* subdirectories as they are now
ListDir ==
    /\ Walking
    /\ traversal.pending = << >>
    /\ traversal.stack # << >>
    /\ \E top \in {Head(traversal.stack)} :
        \E dirs \in {Ordered(DirsIn(traversal.fs, top))} :
         traversal' = [traversal EXCEPT
                         !.root = top,
                         !.pending = Ordered(FilesIn(traversal.fs, top)),
                         !.stack = [k \in 1..Len(dirs) |-> top \o <<dirs[k]>>]
                                       \o Tail(traversal.stack)]
    /\ UNCHANGED <<keyFile, issued, linesep, sources, backups, metadata, result, callers>>

\* one pass of the inner loop: the file is copied to rel_dest
CopyFile ==
    /\ Walking
    /\ traversal.pending # << >>
    /\ Len(RelDest) <= MaxDepth
    /\ traversal' = [traversal EXCEPT
                       !.fs = @ \cup {RelDest},
                       !.pending = Tail(@),
                       !.processed = Append(@, traversal.root \o <<Head(traversal.pending)>>)]
    /\ UNCHANGED <<keyFile, issued, linesep, sources, backups, metadata, result, callers>>

\* rel_dest is longer than the file system accepts: mkdir raises in
\* _process_and_copy_file and again in the except branch, and the request
\* ends with the exception
PathTooLong ==
    /\ Walking
    /\ traversal.pending # << >>
    /\ Len(RelDest) > MaxDepth
    /\ traversal' = [traversal EXCEPT !.status = "aborted"]
    /\ UNCHANGED <<keyFile, issued, linesep, sources, backups, metadata, result, callers>>

\* os.walk is exhausted: the summary is written
FinishWalk ==
    /\ Walking
    /\ traversal.pending = << >>
    /\ traversal.stack = << >>
    /\ traversal' = [traversal EXCEPT !.status = "done"]
    /\ UNCHANGED <<keyFile, issued, linesep, sources, backups, metadata, result, callers>>

NextWalk == ListDir \/ CopyFile \/ PathTooLong \/ FinishWalk

SpecWalk == InitWalk /\ [][NextWalk]_vars

\* C17: when the backup has ended, it ended with its summary, every file the
\* source tree held was processed exactly once, and the destination holds
\* these files at their relative paths and no other file.
C17_EveryFileOnce ==
    traversal.status \in {"done", "aborted"} =>
        /\ traversal.status = "done"
        /\ \A p \in traversal.original :
              Cardinality({k \in DOMAIN traversal.processed : traversal.processed[k] = p}) = 1
        /\ \A k \in DOMAIN traversal.processed : traversal.processed[k] \in traversal.original
        /\ {p \in traversal.fs : Below(BackupPath, p)}
              = {BackupPath \o RelativeTo(p, traversal.source) : p \in traversal.original}

-----------------------------------------------------------------------------
(* Claims about the hits a backup redacts                                   *)

\* C21: a finding labelled Medium or High has hits, so a file that is
\* rewritten is redacted from the tokens of its finding's hits and the
\* fallback patterns are never applied.
C21_RedactedFromOwnHits ==
    /\ (result.finding # NoFinding /\ result.finding.risk_label \in {"Medium", "High"}) =>
          DOMAIN result.finding.hits # {}
    /\ (result.op = "processed" /\ result.encrypted) =>
          /\ HitsToRedact(result.finding, ReadText(TheFile.bytes)) = result.finding.hits
          /\ result.tokens = Tokens(result.finding.hits)

\* a file with a password, which the fallback pattern would find too, was
\* rewritten from the hits of its finding
C21_Witness ==
    /\ result.op = "processed"
    /\ result.encrypted
    /\ "password" \in DOMAIN result.finding.hits
    /\ DOMAIN ExtraHits(ReadText(TheFile.bytes)) # {}
    /\ result.tokens = Tokens(result.finding.hits)

-----------------------------------------------------------------------------
(* _process_and_copy_file on files that hold one card number                *)

\* numbers of 13 and of 16 digits, the last digit taking every value
NumbersToRedact == {Leading(len - 1, 0) \o <<d>> : len \in {13, 16}, d \in Digit}

\* the files: a number in one of the layouts, in a text the embedding model
\* finds close to the keywords
CardFiles ==
    {[bytes |-> TextOf(number, layout), readable |-> TRUE, ai |-> 500, ml |-> 0] :
        number \in NumbersToRedact, layout \in Layouts}

InitCardRedact ==
    /\ keyFile \in {NoKey, "k1"}
    /\ issued = {}
    /\ linesep = <<"LF">>
    /\ \E f \in CardFiles :
        /\ sources = [p \in {"docs"} |-> [exists |-> TRUE, files |-> [n \in {"a.txt"} |-> f]]]
        /\ result = [op |-> "scanned", finding |-> ScanFile(f)]
    /\ backups = [n \in {"b1"} |-> [exists |-> FALSE, files |-> << >>]]
    /\ metadata = << >>
    /\ callers = NoCallers
    /\ traversal = NoWalk

SpecCardRedact == InitCardRedact /\ [][NextRedact]_vars

\* the credit card matches that pass Luhn, as they stand in the text
CardsAsWritten(text) ==
    SelectSeq(Groups0(text, FindAll(CcAt, text, 1)),
              LAMBDA m : LuhnCheck(Strip(m, {" ", "-"})))

\* C22: after a redaction in which every encryption succeeded, the copy
\* holds none of the detected values, neither a token of the finding nor a
\* card number as it is written in the source, separators included.
C22_NoDetectedValueReadable ==
    (result.op = "processed" /\ result.encrypted /\ result.failing = {}) =>
        /\ \A t \in Tokens(result.finding.hits) : ~Contains(TheCopy, t)
        /\ \A k \in DOMAIN CardsAsWritten(ReadFileSafe(TheFile)) :
              ~Contains(TheCopy, CardsAsWritten(ReadFileSafe(TheFile))[k])

====
